---- MODULE Spec2Model ----
(***************************************************************************)
(* A model of qliz.py: the Qliz game object, one Player at a time, the     *)
(* timed question loop of play_game, the game-over high-score check, the   *)
(* scoreboard and stats stores, and the two leaderboard displays.          *)
(*                                                                         *)
(* Time is counted in clock ticks; one tick is the shortest time the       *)
(* loop's time.sleep(0.05) can take.  A store file is modelled by the JSON *)
(* document it holds (or by its being absent or unparsable).               *)
(***************************************************************************)
EXTENDS Integers, Sequences, FiniteSets, TLC

VARIABLES
    quiz_metadata,     \* self.quiz_metadata: questions_per_game, time_per_question, title
    all_questions,     \* self.all_questions: the loaded bank
    questions,         \* self.questions: the session's selection, as references (bank positions)
    scoreboard_file,   \* the document stored at self.scoreboard_file
    stats_file,        \* the document stored at self.stats_file
    player,            \* the Player object of the running session
    pc,                \* where the program is
    now,               \* time.time(), in ticks
    i,                 \* play_game: number of the current question (1-based)
    selected_idx,      \* play_game: highlighted option
    answered,          \* play_game: loop flag
    answer,            \* play_game: committed option, or None
    start_time,        \* play_game: start of the current question
    elapsed,           \* play_game: elapsed time found by the last timeout check
    total_time,        \* play_game: running total
    correct_answers,   \* play_game: running score
    is_high_score,     \* show_game_over: the decision
    sorted_scores,     \* display_scoreboard / display_top5_with_emails: the rows shown
    error,             \* the exception that left play_game or a display, if any
    key,               \* play_game: the key getch() returned in this iteration
    config_file        \* the document stored at self.config_file

vars == <<quiz_metadata, all_questions, questions, scoreboard_file, stats_file,
          player, pc, now, i, selected_idx, answered, answer, start_time,
          elapsed, total_time, correct_answers, is_high_score, sorted_scores,
          error, key, config_file>>

loopvars == <<i, selected_idx, answered, answer, start_time, elapsed,
              total_time, correct_answers, key>>

conf == <<quiz_metadata, all_questions, config_file>>

(***************************************************************************)
(* Bounds of the model.                                                    *)
(***************************************************************************)
MaxBank == 2        \* questions in the bank (game specification)
MaxPerGame == 2     \* largest questions_per_game (game specification)
MaxDelay == 2       \* longest time one time.sleep(0.05) takes, in ticks
MaxClock == 4       \* no session starts at or after this time
MaxTime == 2        \* time_per_question, in ticks
MaxBoard == 11      \* entries of a stored scoreboard (leaderboard specification)
MaxPattern == 4     \* entries after which such a scoreboard repeats itself
MaxPool == 4        \* questions in the bank (selection specification)
MaxConfig == 2      \* question objects in a configuration (loading specification)

(***************************************************************************)
(* Python values.                                                          *)
(***************************************************************************)
None == -1                       \* Python's None where an option index is expected

Min(a, b) == IF a < b THEN a ELSE b

\* options[idx] of a Python list with n elements succeeds for -n <= idx < n
ValidIndex(n, idx) == -n <= idx /\ idx < n

\* a % b of Python for b > 0 (b = 0 raises ZeroDivisionError)
PyMod(a, b) == a % b

Opts(n) == [k \in 1..n |-> k]

Question(id, n, c) == [id |-> id, options |-> Opts(n), correct |-> c]

(***************************************************************************)
(* Stored documents.  tag is "absent" (no file), "corrupt" (not JSON),     *)
(* "list" (legacy: a bare list of entries) or "dict" (entries wrapped      *)
(* under metadata).  A list has no metadata: its title is "" and its       *)
(* last_updated 0.                                                         *)
(***************************************************************************)
Doc(tag, title, updated, scores) ==
    [tag |-> tag, quiz_title |-> title, last_updated |-> updated, scores |-> scores]

AbsentFile == Doc("absent", "", 0, <<>>)
CorruptFile == Doc("corrupt", "", 0, <<>>)
ListFile(scores) == Doc("list", "", 0, scores)
DictFile(title, updated, scores) == Doc("dict", title, updated, scores)

Ok(v) == [raised |-> "none", value |-> v]
Raise(e, v) == [raised |-> e, value |-> v]

\* a faulty load_scoreboard: a legacy list is returned unwrapped
LoadScoreboardNoLegacy(file) ==
    CASE file.tag = "absent" -> Ok(DictFile("", 0, <<>>))
      [] file.tag = "corrupt" -> Raise("JSONDecodeError", file)
      [] file.tag = "list" -> Raise("AttributeError", file)
      [] OTHER -> Ok(file)

\* load_scoreboard
LoadScoreboard(file) ==
    CASE file.tag = "absent" -> Ok(DictFile("", 0, <<>>))
      [] file.tag = "corrupt" -> Raise("JSONDecodeError", file)
      [] file.tag = "list" -> Ok(DictFile("", 0, file.scores))
      [] OTHER -> Ok(file)

\* load_stats
LoadStats(file) ==
    CASE file.tag = "absent" -> Ok(<<>>)
      [] file.tag = "corrupt" -> Raise("JSONDecodeError", <<>>)
      [] OTHER -> Ok(file.scores)

(***************************************************************************)
(* Player.                                                                 *)
(***************************************************************************)
NewPlayer(name, email, consent, t) ==
    [name |-> name, email |-> email, marketing_consent |-> consent,
     score |-> 0, total_time |-> 0, timestamp |-> t, question_details |-> <<>>]

NoPlayer == NewPlayer("", "", FALSE, 0)

\* save_score: player_data
PlayerData(p) ==
    [name |-> p.name, email |-> p.email, marketing_consent |-> p.marketing_consent,
     score |-> p.score, total_time |-> p.total_time, timestamp |-> p.timestamp]

\* save_game_stats: game_stats
GameStats(p, qs) ==
    [player_name |-> p.name, player_email |-> p.email, timestamp |-> p.timestamp,
     final_score |-> p.score, total_time |-> p.total_time,
     total_questions |-> Len(qs), questions |-> p.question_details]

(***************************************************************************)
(* select_random_questions: the selections it can leave in self.questions. *)
(* random.sample draws k distinct positions of the population, in any      *)
(* order.                                                                  *)
(***************************************************************************)
Injective(f) == \A a, b \in DOMAIN f : a # b => f[a] # f[b]

Sample(n, k) == {s \in [1..k -> 1..n] : Injective(s)}

\* a faulty select_random_questions: draws with replacement
SelectWithReplacement(bank, count) ==
    IF Len(bank) <= count THEN {[k \in 1..Len(bank) |-> k]}
    ELSE [1..count -> 1..Len(bank)]

\* a faulty select_random_questions: the whole bank is shuffled too
SelectShuffled(bank, count) ==
    Sample(Len(bank), Min(count, Len(bank)))

SelectRandomQuestions(bank, count) ==
    IF Len(bank) <= count THEN {[k \in 1..Len(bank) |-> k]}
    ELSE Sample(Len(bank), count)

(***************************************************************************)
(* sorted(scores, key=lambda x: (-x['score'], x['total_time'])): Python's  *)
(* sort is stable.                                                         *)
(***************************************************************************)
KeyLess(a, b) ==
    \/ -a.score < -b.score
    \/ -a.score = -b.score /\ a.total_time < b.total_time

\* x goes after every element whose key is not greater than its own
RECURSIVE InsertSorted(_, _)
InsertSorted(s, x) ==
    IF s = <<>> THEN <<x>>
    ELSE IF KeyLess(x, Head(s)) THEN <<x>> \o s
    ELSE <<Head(s)>> \o InsertSorted(Tail(s), x)

RECURSIVE SortFrom(_, _)
SortFrom(acc, rest) ==
    IF rest = <<>> THEN acc ELSE SortFrom(InsertSorted(acc, Head(rest)), Tail(rest))

SortedByKey(scores) == SortFrom(<<>>, scores)

Slice(s, limit) == SubSeq(s, 1, Min(limit, Len(s)))

HighScoresLimit == 10
Top5Limit == 5

\* a faulty leaderboard: sorted by descending score alone
LeaderboardByScoreOnly(scores, limit) ==
    LET RECURSIVE Ins(_, _)
        Ins(s, x) == IF s = <<>> THEN <<x>>
                     ELSE IF x.score > Head(s).score THEN <<x>> \o s
                     ELSE <<Head(s)>> \o Ins(Tail(s), x)
        RECURSIVE Srt(_, _)
        Srt(acc, rest) == IF rest = <<>> THEN acc ELSE Srt(Ins(acc, Head(rest)), Tail(rest))
    IN Slice(Srt(<<>>, scores), limit)

\* display_scoreboard, display_top5_with_emails: sorted(...)[:limit]
Leaderboard(scores, limit) == Slice(SortedByKey(scores), limit)

(***************************************************************************)
(* show_game_over: the high-score decision.                                *)
(***************************************************************************)
\* a faulty decision: an equal time also counts
HighScoreOnTie(scores, p) ==
    IF scores = <<>> THEN TRUE
    ELSE LET best_score == SortedByKey(scores)[1]
         IN \/ p.score > best_score.score
            \/ p.score = best_score.score /\ p.total_time <= best_score.total_time

\* a faulty decision: taken after the session's own entry is stored
HighScoreAfterSave(scores, p) ==
    LET best_score == SortedByKey(Append(scores, PlayerData(p)))[1]
    IN \/ p.score > best_score.score
       \/ p.score = best_score.score /\ p.total_time < best_score.total_time

HighScore(scores, p) ==
    IF scores = <<>> THEN TRUE
    ELSE LET best_score == SortedByKey(scores)[1]
         IN \/ p.score > best_score.score
            \/ p.score = best_score.score /\ p.total_time < best_score.total_time

(***************************************************************************)
(* play_game: the timed question loop.                                     *)
(***************************************************************************)
\* a faulty timeout check: the limit itself is not a timeout
TimedOutLate(e, time_per_question) == e > time_per_question

\* line 488
TimedOut(e, time_per_question) == e >= time_per_question

Key(k, n) == [k |-> k, n |-> n]

\* what getch() can return: -1 (no key), the arrows, Enter, Space, the letters
\* a-f / A-F and the digits 1-6 (n is the option they stand for), anything else
Keys ==
    {Key(k, 0) : k \in {"NONE", "KEY_UP", "KEY_DOWN", "ENTER", "SPACE", "OTHER"}}
    \cup {Key(k, n) : k \in {"LETTER", "DIGIT"}, n \in 0..5}

NoKey == Key("NONE", 0)

Local(sel, ans, done) == [selected_idx |-> sel, answer |-> ans, answered |-> done]

\* a faulty key handling: the arrows do not wrap
HandleKeyNoWrap(pressed, question, sel, ans, done) ==
    LET n == Len(question.options) IN
    CASE pressed.k = "KEY_UP" -> Local(sel - 1, ans, done)
      [] pressed.k = "KEY_DOWN" -> Local(sel + 1, ans, done)
      [] pressed.k \in {"ENTER", "SPACE"} -> Local(sel, sel, TRUE)
      [] pressed.k \in {"LETTER", "DIGIT"} ->
           IF n > pressed.n THEN Local(sel, pressed.n, TRUE) ELSE Local(sel, ans, done)
      [] OTHER -> Local(sel, ans, done)

\* a faulty key handling: Enter and Space commit the first option
HandleKeyConfirmFirst(pressed, question, sel, ans, done) ==
    LET n == Len(question.options) IN
    CASE pressed.k = "KEY_UP" ->
           IF n = 0 THEN Local(sel, ans, done) ELSE Local(PyMod(sel - 1, n), ans, done)
      [] pressed.k = "KEY_DOWN" ->
           IF n = 0 THEN Local(sel, ans, done) ELSE Local(PyMod(sel + 1, n), ans, done)
      [] pressed.k \in {"ENTER", "SPACE"} -> Local(sel, 0, TRUE)
      [] pressed.k \in {"LETTER", "DIGIT"} ->
           IF n > pressed.n THEN Local(sel, pressed.n, TRUE) ELSE Local(sel, ans, done)
      [] OTHER -> Local(sel, ans, done)

\* a faulty key handling: a letter or digit commits whatever the option count
HandleKeyAnyDigit(pressed, question, sel, ans, done) ==
    LET n == Len(question.options) IN
    CASE pressed.k = "KEY_UP" ->
           IF n = 0 THEN Local(sel, ans, done) ELSE Local(PyMod(sel - 1, n), ans, done)
      [] pressed.k = "KEY_DOWN" ->
           IF n = 0 THEN Local(sel, ans, done) ELSE Local(PyMod(sel + 1, n), ans, done)
      [] pressed.k \in {"ENTER", "SPACE"} -> Local(sel, sel, TRUE)
      [] pressed.k \in {"LETTER", "DIGIT"} -> Local(sel, pressed.n, TRUE)
      [] OTHER -> Local(sel, ans, done)

\* lines 494-555; a ZeroDivisionError of % is swallowed by the bare except
HandleKey(pressed, question, sel, ans, done) ==
    LET n == Len(question.options) IN
    CASE pressed.k = "KEY_UP" ->
           IF n = 0 THEN Local(sel, ans, done) ELSE Local(PyMod(sel - 1, n), ans, done)
      [] pressed.k = "KEY_DOWN" ->
           IF n = 0 THEN Local(sel, ans, done) ELSE Local(PyMod(sel + 1, n), ans, done)
      [] pressed.k \in {"ENTER", "SPACE"} -> Local(sel, sel, TRUE)
      [] pressed.k \in {"LETTER", "DIGIT"} ->
           IF n > pressed.n THEN Local(sel, pressed.n, TRUE) ELSE Local(sel, ans, done)
      [] OTHER -> Local(sel, ans, done)

\* a faulty scoring: any committed answer counts
IsCorrectAnyAnswer(ans, question) == ans # None

\* lines 564-576
IsCorrect(ans, question) == ans # None /\ ans = question.correct

\* lines 565-575: what the question adds to total_time
TimeAdded(ans, time_taken, time_per_question) ==
    IF ans = None THEN time_per_question ELSE time_taken

\* lines 579-588
QuestionDetail(question, ans, is_correct, time_taken) ==
    [question_id |-> question.id, options |-> question.options,
     correct_answer |-> question.correct, player_answer |-> ans,
     is_correct |-> is_correct, time_taken |-> time_taken,
     timed_out |-> (ans = None)]

\* a faulty enumeration: every turn asks the first question
CurrentQuestionFirst == all_questions[questions[1]]

CurrentQuestion == all_questions[questions[i]]

\* an exception nothing catches: it leaves play_game, main_menu and run, and
\* ends the process; where is the frame that raised it
NoError == [type |-> "none", where |-> "none"]

Crash(e) == pc' = "crashed" /\ error' = [type |-> e, where |-> pc]

(***************************************************************************)
(* load_quiz_config.  A configuration file is "unreadable" (open fails),   *)
(* "malformed" (not JSON) or "json": a document with quiz_metadata and the *)
(* list of questions; fields is the set of keys a question object has.     *)
(***************************************************************************)
RequiredFields == {"question", "options", "correct_answer"}

ConfigQuestion(fields, id, options, correct) ==
    [fields |-> fields, id |-> id, options |-> options, correct_answer |-> correct]

ConfigDoc(tag, metadata, questions_data) ==
    [tag |-> tag, quiz_metadata |-> metadata, questions |-> questions_data]

\* self.quiz_metadata before the load, read with the defaults of its .get calls
NoMetadata == [questions_per_game |-> 5, time_per_question |-> 30, title |-> "QUIZ GAME"]

\* the configuration that loads to this metadata and this bank
ConfigOf(metadata, bank) ==
    ConfigDoc("json", metadata,
              [k \in DOMAIN bank |->
                  ConfigQuestion(RequiredFields, bank[k].id, bank[k].options,
                                 bank[k].correct)])

\* a faulty loop of lines 63-70: a question without a field is skipped
RECURSIVE LoadQuestionsSkipping(_, _)
LoadQuestionsSkipping(loaded, questions_data) ==
    IF questions_data = <<>> THEN Ok(loaded)
    ELSE LET q == Head(questions_data) IN
         IF RequiredFields \subseteq q.fields
         THEN LoadQuestionsSkipping(
                  Append(loaded, [id |-> q.id, options |-> q.options,
                                  correct |-> q.correct_answer]),
                  Tail(questions_data))
         ELSE LoadQuestionsSkipping(loaded, Tail(questions_data))

\* lines 62-70: q['question'], q['options'], q['correct_answer'] raise
\* KeyError, and self.all_questions keeps the questions appended before
RECURSIVE LoadQuestions(_, _)
LoadQuestions(loaded, questions_data) ==
    IF questions_data = <<>> THEN Ok(loaded)
    ELSE LET q == Head(questions_data) IN
         IF RequiredFields \subseteq q.fields
         THEN LoadQuestions(
                  Append(loaded, [id |-> q.id, options |-> q.options,
                                  correct |-> q.correct_answer]),
                  Tail(questions_data))
         ELSE Raise("KeyError", loaded)

(***************************************************************************)
(* The inputs of a run.                                                    *)
(***************************************************************************)
\* <<number of options, correct_answer>>: a question with three options, one
\* with a single option and one with none
Shapes == {<<3, 1>>, <<1, 0>>, <<0, 0>>}

BankOf(shapes) == [k \in DOMAIN shapes |-> Question(k, shapes[k][1], shapes[k][2])]

Banks(n) == UNION {{BankOf(s) : s \in [1..m -> Shapes]} : m \in 1..n}

Registrations == {<<"ann", "ann@qliz.io", TRUE>>}

\* an entry left by an earlier run
Entry(score, time, stamp) ==
    [name |-> "old", email |-> "old@qliz.io", marketing_consent |-> FALSE,
     score |-> score, total_time |-> time, timestamp |-> stamp]

SeedScores == {<<>>, <<Entry(0, 1, 1), Entry(1, 2, 2)>>}

SeedBoards ==
    {AbsentFile, CorruptFile}
    \cup {ListFile(s) : s \in SeedScores}
    \cup {DictFile("Quiz", 1, s) : s \in SeedScores}

SeedStats ==
    {AbsentFile, CorruptFile,
     ListFile(<<GameStats(NewPlayer("old", "old@qliz.io", FALSE, 1), <<>>)>>)}

Idle ==
    /\ questions = <<>>
    /\ player = NoPlayer
    /\ pc = "menu"
    /\ now = 0
    /\ i = 0
    /\ selected_idx = 0
    /\ answered = FALSE
    /\ answer = None
    /\ start_time = 0
    /\ elapsed = 0
    /\ total_time = 0
    /\ correct_answers = 0
    /\ is_high_score = FALSE
    /\ sorted_scores = <<>>
    /\ error = NoError
    /\ key = NoKey

Init ==
    /\ quiz_metadata \in [questions_per_game : 1..MaxPerGame,
                          time_per_question : {MaxTime},
                          title : {"Quiz"}]
    /\ all_questions \in Banks(MaxBank)
    /\ config_file = ConfigOf(quiz_metadata, all_questions)
    /\ scoreboard_file \in SeedBoards
    /\ stats_file \in SeedStats
    /\ Idle

(***************************************************************************)
(* The operations.                                                         *)
(***************************************************************************)
\* main_menu "PLAY GAME": register_player, then play_game up to the first
\* question (lines 431-475)
PlayGame ==
    /\ pc = "menu"
    /\ now < MaxClock
    /\ \E r \in Registrations :
           player' = NewPlayer(r[1], r[2], r[3], now)
    /\ \E sel \in SelectRandomQuestions(all_questions, quiz_metadata.questions_per_game) :
           questions' = sel
    /\ total_time' = 0
    /\ correct_answers' = 0
    /\ i' = 1
    /\ pc' = "next"
    /\ UNCHANGED <<conf, scoreboard_file, stats_file, now, selected_idx, answered,
                   answer, start_time, elapsed, is_high_score, sorted_scores, error,
                   key>>

\* lines 477-483
StartQuestion ==
    /\ pc = "next"
    /\ i <= Len(questions)
    /\ selected_idx' = 0
    /\ answered' = FALSE
    /\ start_time' = now
    /\ answer' = None
    /\ pc' = "check"
    /\ UNCHANGED <<conf, questions, scoreboard_file, stats_file, player, now, i,
                   elapsed, total_time, correct_answers, is_high_score,
                   sorted_scores, error, key>>

\* lines 485-490
TimeoutCheck ==
    /\ pc = "check"
    /\ elapsed' = now - start_time
    /\ pc' = IF TimedOut(elapsed', quiz_metadata.time_per_question)
             THEN "result" ELSE "render"
    /\ UNCHANGED <<conf, questions, scoreboard_file, stats_file, player, now, i,
                   selected_idx, answered, answer, start_time, total_time,
                   correct_answers, is_high_score, sorted_scores, error, key>>

\* line 492
Render ==
    /\ pc = "render"
    /\ pc' = "poll"
    /\ UNCHANGED <<conf, questions, scoreboard_file, stats_file, player, now,
                   loopvars, is_high_score, sorted_scores, error>>

\* lines 494-555
Poll ==
    /\ pc = "poll"
    /\ \E pressed \in Keys :
         LET l == HandleKey(pressed, CurrentQuestion, selected_idx, answer, answered) IN
           /\ key' = pressed
           /\ selected_idx' = l.selected_idx
           /\ answer' = l.answer
           /\ answered' = l.answered
    /\ pc' = "sleep"
    /\ UNCHANGED <<conf, questions, scoreboard_file, stats_file, player, now, i,
                   start_time, elapsed, total_time, correct_answers,
                   is_high_score, sorted_scores, error>>

\* line 557, then the loop condition of line 485; the key of this iteration
\* is not read again
Sleep ==
    /\ pc = "sleep"
    /\ \E d \in 1..MaxDelay : now' = now + d
    /\ pc' = IF answered THEN "result" ELSE "check"
    /\ key' = NoKey
    /\ UNCHANGED <<conf, questions, scoreboard_file, stats_file, player, i,
                   selected_idx, answered, answer, start_time, elapsed,
                   total_time, correct_answers, is_high_score, sorted_scores,
                   error>>

\* lines 559-589: the outcome of the question; show_result's argument
\* question['options'][question['correct']] can raise IndexError, and its
\* time.sleep(2) takes at least a tick
EndQuestion ==
    /\ pc = "result"
    /\ LET question == CurrentQuestion
           time_taken == now - start_time
           is_correct == IsCorrect(answer, question)
       IN /\ total_time' = total_time
                 + TimeAdded(answer, time_taken, quiz_metadata.time_per_question)
          /\ correct_answers' = correct_answers + (IF is_correct THEN 1 ELSE 0)
          /\ IF ValidIndex(Len(question.options), question.correct)
             THEN /\ player' = [player EXCEPT !.question_details =
                        Append(@, QuestionDetail(question, answer, is_correct, time_taken))]
                  /\ now' = now + 1
                  /\ i' = i + 1
                  /\ pc' = "next"
                  /\ error' = error
             ELSE /\ Crash("IndexError")
                  /\ UNCHANGED <<player, now, i>>
    /\ UNCHANGED <<conf, questions, scoreboard_file, stats_file, selected_idx,
                   answered, answer, start_time, elapsed, is_high_score,
                   sorted_scores, key>>

\* lines 591-592
FinishGame ==
    /\ pc = "next"
    /\ i > Len(questions)
    /\ player' = [player EXCEPT !.score = correct_answers, !.total_time = total_time]
    /\ pc' = "game_over"
    /\ UNCHANGED <<conf, questions, scoreboard_file, stats_file, now, loopvars,
                   is_high_score, sorted_scores, error>>

(***************************************************************************)
(* Game over and the two stores.                                           *)
(***************************************************************************)
\* lines 625-641; load_scoreboard's JSONDecodeError is not caught
ShowGameOver ==
    /\ pc = "game_over"
    /\ LET scoreboard_data == LoadScoreboard(scoreboard_file) IN
         IF scoreboard_data.raised = "none"
         THEN /\ is_high_score' = HighScore(scoreboard_data.value.scores, player)
              /\ pc' = "save_score"
              /\ error' = error
         ELSE /\ Crash(scoreboard_data.raised)
              /\ UNCHANGED is_high_score
    /\ UNCHANGED <<conf, questions, scoreboard_file, stats_file, player, now,
                   loopvars, sorted_scores>>

\* a faulty save_score: the new entry replaces the old ones
ScoreboardWithOnly(scoreboard_data, p, metadata, t) ==
    DictFile(metadata.title, t, <<PlayerData(p)>>)

\* lines 656-675: the document save_score writes
ScoreboardWith(scoreboard_data, p, metadata, t) ==
    DictFile(metadata.title, t, Append(scoreboard_data.scores, PlayerData(p)))

\* lines 651-678; open(..., 'w') can fail, and then the file is as it was
SaveScore ==
    /\ pc = "save_score"
    /\ LET scoreboard_data == LoadScoreboard(scoreboard_file) IN
         IF scoreboard_data.raised = "none"
         THEN \E written \in BOOLEAN :
                IF written
                THEN /\ scoreboard_file' =
                          ScoreboardWith(scoreboard_data.value, player, quiz_metadata, now)
                     /\ pc' = "save_stats"
                     /\ error' = error
                ELSE /\ Crash("OSError")
                     /\ UNCHANGED scoreboard_file
         ELSE /\ Crash(scoreboard_data.raised)
              /\ UNCHANGED scoreboard_file
    /\ UNCHANGED <<conf, questions, stats_file, player, now, loopvars,
                   is_high_score, sorted_scores>>

\* lines 694-706: the document save_game_stats writes
StatsWith(stats_data, p, qs) == ListFile(Append(stats_data, GameStats(p, qs)))

\* lines 692-709, then back in main_menu
SaveGameStats ==
    /\ pc = "save_stats"
    /\ LET stats_data == LoadStats(stats_file) IN
         IF stats_data.raised = "none"
         THEN \E written \in BOOLEAN :
                IF written
                THEN /\ stats_file' = StatsWith(stats_data.value, player, questions)
                     /\ pc' = "menu"
                     /\ error' = error
                ELSE /\ Crash("OSError")
                     /\ UNCHANGED stats_file
         ELSE /\ Crash(stats_data.raised)
              /\ UNCHANGED stats_file
    /\ UNCHANGED <<conf, questions, scoreboard_file, player, now, loopvars,
                   is_high_score, sorted_scores>>

(***************************************************************************)
(* The leaderboards.                                                       *)
(***************************************************************************)
\* the body the two displays share: load_scoreboard, "if not scores", the
\* sorted and sliced rows
Display(limit, screen) ==
    /\ LET scoreboard_data == LoadScoreboard(scoreboard_file) IN
         IF scoreboard_data.raised = "none"
         THEN /\ sorted_scores' = IF scoreboard_data.value.scores = <<>> THEN <<>>
                                  ELSE Leaderboard(scoreboard_data.value.scores, limit)
              /\ pc' = screen
              /\ error' = error
         ELSE /\ Crash(scoreboard_data.raised)
              /\ UNCHANGED sorted_scores
    /\ UNCHANGED <<conf, questions, scoreboard_file, stats_file, player, now,
                   loopvars, is_high_score>>

\* lines 782-842
DisplayScoreboard ==
    /\ pc = "menu"
    /\ Display(HighScoresLimit, "high_scores")

\* lines 719-780
DisplayTop5WithEmails ==
    /\ pc = "menu"
    /\ Display(Top5Limit, "top5")

\* the final getch() of either display: back in main_menu
ReturnToMenu ==
    /\ pc \in {"high_scores", "top5"}
    /\ sorted_scores' = <<>>
    /\ pc' = "menu"
    /\ UNCHANGED <<conf, questions, scoreboard_file, stats_file, player, now,
                   loopvars, is_high_score, error>>

Next ==
    \/ PlayGame
    \/ StartQuestion
    \/ TimeoutCheck
    \/ Render
    \/ Poll
    \/ Sleep
    \/ EndQuestion
    \/ FinishGame
    \/ ShowGameOver
    \/ SaveScore
    \/ SaveGameStats
    \/ DisplayScoreboard
    \/ DisplayTop5WithEmails
    \/ ReturnToMenu

Spec == Init /\ [][Next]_vars

(***************************************************************************)
(* The selection alone, over larger banks: select_random_questions as      *)
(* play_game calls it, up to the start of the first question.              *)
(***************************************************************************)
InitSelect ==
    /\ quiz_metadata \in [questions_per_game : 1..(MaxPool + 1),
                          time_per_question : {MaxTime},
                          title : {"Quiz"}]
    /\ all_questions \in {BankOf([k \in 1..n |-> <<3, 1>>]) : n \in 1..MaxPool}
    /\ config_file = ConfigOf(quiz_metadata, all_questions)
    /\ scoreboard_file = AbsentFile
    /\ stats_file = AbsentFile
    /\ Idle

NextSelect == PlayGame \/ StartQuestion

SpecSelect == InitSelect /\ [][NextSelect]_vars

(***************************************************************************)
(* The leaderboards alone, over larger scoreboards: a stored scoreboard of *)
(* up to MaxBoard entries, the entries of a pattern repeated in turn, each *)
(* stamped with its position.                                              *)
(***************************************************************************)
RankKinds == {<<2, 1>>, <<2, 2>>, <<1, 1>>, <<1, 2>>}

Patterns == UNION {[1..m -> RankKinds] : m \in 1..MaxPattern}

BoardOf(pattern, n) ==
    [k \in 1..n |->
        LET e == pattern[((k - 1) % Len(pattern)) + 1] IN Entry(e[1], e[2], k)]

Boards == {BoardOf(p, n) : p \in Patterns, n \in 0..MaxBoard}

InitBoard ==
    /\ quiz_metadata = [questions_per_game |-> 1, time_per_question |-> MaxTime,
                        title |-> "Quiz"]
    /\ all_questions = BankOf(<<<<3, 1>>>>)
    /\ config_file = ConfigOf(quiz_metadata, all_questions)
    /\ scoreboard_file \in {ListFile(b) : b \in Boards}
                             \cup {DictFile("Quiz", 1, b) : b \in Boards}
    /\ stats_file = AbsentFile
    /\ Idle

NextBoard == DisplayScoreboard \/ DisplayTop5WithEmails \/ ReturnToMenu

SpecBoard == InitBoard /\ [][NextBoard]_vars

(***************************************************************************)
(* The construction alone, over configurations good and bad: Qliz.__init__ *)
(* calls load_quiz_config, whose exception leaves main and ends the        *)
(* process; after a load that succeeds a game can start.                   *)
(***************************************************************************)
\* lines 47-77
LoadQuizConfig ==
    /\ pc = "start"
    /\ CASE config_file.tag = "unreadable" ->
              /\ Crash("OSError")
              /\ UNCHANGED <<quiz_metadata, all_questions>>
         [] config_file.tag = "malformed" ->
              /\ Crash("JSONDecodeError")
              /\ UNCHANGED <<quiz_metadata, all_questions>>
         [] OTHER ->
              LET loaded == LoadQuestions(<<>>, config_file.questions) IN
                /\ quiz_metadata' = config_file.quiz_metadata
                /\ all_questions' = loaded.value
                /\ IF loaded.raised # "none" THEN Crash(loaded.raised)
                   ELSE IF loaded.value = <<>> THEN Crash("ValueError")
                   ELSE pc' = "menu" /\ error' = error
    /\ UNCHANGED <<config_file, questions, scoreboard_file, stats_file, player, now,
                   loopvars, is_high_score, sorted_scores>>

\* the question objects a configuration can hold: any of the keys present,
\* "id" among them (q.get('id', 0)), and the options and correct_answer of
\* any of the shapes
ConfigKinds == (SUBSET (RequiredFields \cup {"id"})) \X Shapes

ConfigQuestions(kinds) ==
    [k \in DOMAIN kinds |->
        LET f == kinds[k][1]
            sh == kinds[k][2]
        IN ConfigQuestion(f, IF "id" \in f THEN k ELSE 0, Opts(sh[1]), sh[2])]

LoadMetadata == [questions_per_game |-> 1, time_per_question |-> MaxTime, title |-> "Quiz"]

\* the configuration is unreadable, malformed or a document of up to
\* MaxConfig question objects
ConfigFiles(c) ==
    \/ c = ConfigDoc("unreadable", LoadMetadata, <<>>)
    \/ c = ConfigDoc("malformed", LoadMetadata, <<>>)
    \/ \E m \in 0..MaxConfig : \E kinds \in [1..m -> ConfigKinds] :
           c = ConfigDoc("json", LoadMetadata, ConfigQuestions(kinds))

InitLoad ==
    /\ ConfigFiles(config_file)
    /\ quiz_metadata = NoMetadata
    /\ all_questions = <<>>
    /\ scoreboard_file = AbsentFile
    /\ stats_file = AbsentFile
    /\ questions = <<>>
    /\ player = NoPlayer
    /\ pc = "start"
    /\ now = 0
    /\ i = 0
    /\ selected_idx = 0
    /\ answered = FALSE
    /\ answer = None
    /\ start_time = 0
    /\ elapsed = 0
    /\ total_time = 0
    /\ correct_answers = 0
    /\ is_high_score = FALSE
    /\ sorted_scores = <<>>
    /\ error = NoError
    /\ key = NoKey

NextLoad == LoadQuizConfig \/ PlayGame \/ StartQuestion

SpecLoad == InitLoad /\ [][NextLoad]_vars

(***************************************************************************)
(* The claims.                                                             *)
(***************************************************************************)
Details == player.question_details

TimePerQuestion == quiz_metadata.time_per_question

RECURSIVE SumTimeTaken(_)
SumTimeTaken(ds) == IF ds = <<>> THEN 0 ELSE Head(ds).time_taken + SumTimeTaken(Tail(ds))

CountCorrect(ds) == Cardinality({k \in DOMAIN ds : ds[k].is_correct})

StoredScores == LoadScoreboard(scoreboard_file).value.scores

\* C1: the outcome recorded for a question that timed out (no answer was
\* accepted before the elapsed time reached time_per_question) has
\* player_answer None, is_correct False and time_taken equal to
\* time_per_question.
C1_TimeoutOutcome ==
    \A k \in DOMAIN Details :
        Details[k].player_answer = None =>
            /\ ~Details[k].is_correct
            /\ Details[k].time_taken = TimePerQuestion

\* C2: at the end of a session, total_time is the sum of the recorded
\* time_taken and score is the number of recorded outcomes that are correct.
C2_SessionTotals ==
    pc = "game_over" =>
        /\ player.total_time = SumTimeTaken(Details)
        /\ player.score = CountCorrect(Details)

\* C3: a recorded outcome with an answer is correct exactly when the answer
\* is the question's correct index; a timed-out outcome is never correct, and
\* the running score counts the correct outcomes alone.
C3_ScoringCorrect ==
    /\ \A k \in DOMAIN Details :
          LET d == Details[k] IN
            /\ d.player_answer # None => (d.is_correct <=> d.player_answer = d.correct_answer)
            /\ d.player_answer = None => ~d.is_correct
    /\ pc # "crashed" => correct_answers = CountCorrect(Details)

\* a session in which one question was answered correctly and one timed out
C3_Witness ==
    /\ pc = "next"
    /\ \E k \in DOMAIN Details : Details[k].is_correct
    /\ \E k \in DOMAIN Details : Details[k].player_answer = None
    /\ correct_answers = 1

\* C4: after select_random_questions the session holds min(count, N)
\* questions, each an entry of the bank and no entry twice.
C4_Selection ==
    player # NoPlayer =>
        /\ Len(questions) = Min(quiz_metadata.questions_per_game, Len(all_questions))
        /\ \A k \in DOMAIN questions : questions[k] \in DOMAIN all_questions
        /\ \A a, b \in DOMAIN questions : a # b => questions[a] # questions[b]

\* a sample of two out of four, not in bank order
C4_Witness ==
    /\ player # NoPlayer
    /\ Len(all_questions) = 4
    /\ Len(questions) = 2
    /\ questions[1] > questions[2]

BestScore(scores) ==
    CHOOSE m \in {scores[k].score : k \in DOMAIN scores} :
        \A k \in DOMAIN scores : scores[k].score <= m

BestTime(scores) ==
    LET times == {scores[k].total_time :
                    k \in {j \in DOMAIN scores : scores[j].score = BestScore(scores)}}
    IN CHOOSE t \in times : \A u \in times : t <= u

\* C5: the decision made at game over is true exactly when the scoreboard
\* held no entries, or the session's score is above the best stored score, or
\* it equals the best stored score in strictly less total_time than the
\* best-ranked stored entry.
C5_HighScoreDecision ==
    pc = "save_score" =>
        (is_high_score <=>
            \/ StoredScores = <<>>
            \/ player.score > BestScore(StoredScores)
            \/ /\ player.score = BestScore(StoredScores)
               /\ player.total_time < BestTime(StoredScores))

\* an exact tie with the best stored entry on score and time: no high score
C5_Witness ==
    /\ pc = "save_score"
    /\ StoredScores # <<>>
    /\ player.score = BestScore(StoredScores)
    /\ player.total_time = BestTime(StoredScores)
    /\ ~is_high_score

Before(a, b) ==
    \/ a.score > b.score
    \/ a.score = b.score /\ a.total_time < b.total_time

SameKey(a, b) == a.score = b.score /\ a.total_time = b.total_time

\* the place of scores[j] in the full ordering
Rank(scores, j) ==
    1 + Cardinality({k \in DOMAIN scores :
                        \/ Before(scores[k], scores[j])
                        \/ SameKey(scores[k], scores[j]) /\ k < j})

\* C6: a leaderboard shows the first limit entries (10 high scores, 5 top
\* players) of the stored entries ordered by descending score, then ascending
\* total_time, entries equal on both in their stored order.
C6_Leaderboard ==
    pc \in {"high_scores", "top5"} =>
        LET limit == IF pc = "high_scores" THEN 10 ELSE 5 IN
          /\ Len(sorted_scores) = Min(limit, Len(StoredScores))
          /\ \A j \in DOMAIN StoredScores :
                Rank(StoredScores, j) <= limit =>
                    sorted_scores[Rank(StoredScores, j)] = StoredScores[j]

\* the high scores of a scoreboard of more than ten entries, some equal on
\* both keys and some stored out of order
C6_Witness ==
    /\ pc = "high_scores"
    /\ Len(StoredScores) > 10
    /\ Len(sorted_scores) = 10
    /\ \E j, k \in DOMAIN StoredScores :
          j < k /\ SameKey(StoredScores[j], StoredScores[k])
    /\ \E j, k \in DOMAIN StoredScores :
          j < k /\ Before(StoredScores[k], StoredScores[j])

StoredStats == LoadStats(stats_file).value

Wrapped(file) == DictFile("", 0, file.scores)

LegacyConsistent ==
    scoreboard_file.tag = "list" =>
        /\ LoadScoreboard(scoreboard_file).raised = "none"
        /\ StoredScores = scoreboard_file.scores
        /\ StoredScores = LoadScoreboard(Wrapped(scoreboard_file)).value.scores
        /\ pc = "save_score" =>
              is_high_score = HighScore(Wrapped(scoreboard_file).scores, player)
        /\ pc = "high_scores" =>
              sorted_scores = Leaderboard(Wrapped(scoreboard_file).scores, HighScoresLimit)
        /\ pc = "top5" =>
              sorted_scores = Leaderboard(Wrapped(scoreboard_file).scores, Top5Limit)

\* C8: a scoreboard stored as a bare list loads to the score list of the
\* same entries wrapped under metadata; the high-score check, the leaderboards
\* and save_score give it what they give the wrapped store; and one
\* save_score leaves it wrapped, the legacy entries first and in order.
C8_LegacyFormat ==
    [][/\ LegacyConsistent
       /\ LegacyConsistent'
       /\ (scoreboard_file.tag = "list" /\ pc = "save_score" /\ pc' = "save_stats") =>
            /\ scoreboard_file'.tag = "dict"
            /\ SubSeq(scoreboard_file'.scores, 1, Len(scoreboard_file.scores))
                 = scoreboard_file.scores
            /\ scoreboard_file'
                 = ScoreboardWith(Wrapped(scoreboard_file), player, quiz_metadata, now)
      ]_vars

\* the high-score check has run on a legacy store that holds entries
C8_Witness ==
    /\ pc = "save_score"
    /\ scoreboard_file.tag = "list"
    /\ scoreboard_file.scores # <<>>
    /\ is_high_score

InStats(p) ==
    \E k \in DOMAIN StoredStats :
        /\ StoredStats[k].player_name = p.name
        /\ StoredStats[k].timestamp = p.timestamp

\* C9: a failure reading or writing the scoreboard store is raised to the
\* caller, leaves the player's score, total_time and outcomes as they were,
\* and the session's stats record is appended all the same (to a stats store
\* that can be read).
C9_IndependentAppends ==
    (/\ pc = "crashed"
     /\ error.where \in {"game_over", "save_score"}
     /\ LoadStats(stats_file).raised = "none") =>
        /\ error.type # "none"
        /\ player.score = correct_answers
        /\ player.total_time = total_time
        /\ InStats(player)

\* C10: a frame is rendered and a key is polled only after a timeout check
\* of the same iteration found elapsed < time_per_question, and an answer is
\* committed only by such a poll.
C10_CheckBeforePoll ==
    [][/\ pc' \in {"render", "poll"} =>
            /\ elapsed' = now' - start_time'
            /\ elapsed' < TimePerQuestion
       /\ pc' = "render" => pc = "check"
       /\ pc' = "poll" => pc = "render"
       /\ (answered' /\ ~answered) \/ (answer' # None /\ answer = None) =>
            /\ pc = "poll"
            /\ elapsed = now - start_time
            /\ elapsed < TimePerQuestion
      ]_vars

\* an answer committed in the last iteration the time limit allows
C10_Witness ==
    /\ pc = "sleep"
    /\ answered
    /\ elapsed > 0
    /\ elapsed = TimePerQuestion - 1

(***************************************************************************)
(* The game under the scheduling of play_game: a session that has started  *)
(* runs on, because getch() does not block (nodelay) and every other step   *)
(* of the session is a statement of a single thread.                       *)
(***************************************************************************)
SessionStep ==
    \/ StartQuestion
    \/ TimeoutCheck
    \/ Render
    \/ Poll
    \/ Sleep
    \/ EndQuestion
    \/ FinishGame

FairSpec == Spec /\ WF_vars(SessionStep)

\* the question loop alone: a question that has started is answered or
\* times out
LoopLeaves == (pc = "check") ~> (pc = "result")

\* C11: every question's loop reaches ANSWERED or TIMED_OUT, with or
\* without input, and a session that has started reaches game over.
C11_SessionTerminates ==
    /\ (pc = "check") ~> (pc = "result")
    /\ (pc = "check") ~> (pc = "game_over")

ValidConfig(c) ==
    /\ c.tag = "json"
    /\ c.questions # <<>>
    /\ \A k \in DOMAIN c.questions : RequiredFields \subseteq c.questions[k].fields

\* C12: load_quiz_config raises, and no game runs, when the configuration
\* is unreadable, is not JSON, holds no question or holds a question without
\* its text, options or correct answer; otherwise it loads every question.
C12_LoadFails ==
    pc # "start" =>
        /\ pc = "crashed" <=> ~ValidConfig(config_file)
        /\ pc = "crashed" => (error.where = "start" /\ error.type # "none")
        /\ pc # "crashed" =>
              /\ error = NoError
              /\ Len(all_questions) = Len(config_file.questions)

\* a configuration whose first question is complete and whose second lacks
\* its correct answer: KeyError
C12_Witness ==
    /\ pc = "crashed"
    /\ config_file.tag = "json"
    /\ Len(config_file.questions) = 2
    /\ RequiredFields \subseteq config_file.questions[1].fields
    /\ "correct_answer" \notin config_file.questions[2].fields
    /\ error.type = "KeyError"

\* C13: every question of the loaded bank has a correct index that is an
\* index of its options, 0 <= correct < len(options).
C13_ValidCorrectIndex ==
    pc \notin {"start", "crashed"} =>
        \A k \in DOMAIN all_questions :
            /\ 0 <= all_questions[k].correct
            /\ all_questions[k].correct < Len(all_questions[k].options)

\* C14: with questions_per_game >= the size of the bank the selection is
\* the whole bank in bank order, and no step changes the bank.
C14_BankOrderAndFrame ==
    [][/\ all_questions' = all_questions
       /\ (/\ player' # NoPlayer
           /\ quiz_metadata.questions_per_game >= Len(all_questions)) =>
             /\ Len(questions') = Len(all_questions)
             /\ [k \in DOMAIN questions' |-> all_questions[questions'[k]]] = all_questions
      ]_vars

\* a session of the whole bank of two questions has been played to its end
C14_Witness ==
    /\ pc = "menu"
    /\ player # NoPlayer
    /\ Len(all_questions) = 2
    /\ quiz_metadata.questions_per_game >= 2
    /\ Len(Details) = 2

LoopStates == {"check", "render", "poll", "sleep"}

OptionCount == Len(CurrentQuestion.options)

PollStep == pc = "poll" /\ pc' = "sleep"

\* C15: while a question with n >= 1 options awaits input the highlighted
\* index is in 0..n-1; up takes 0 to n-1 and i to i-1, down takes n-1 to 0
\* and i to i+1, and neither commits an answer.
C15_Navigation ==
    [][/\ (pc' \in LoopStates /\ OptionCount' >= 1) =>
             (0 <= selected_idx' /\ selected_idx' < OptionCount')
       /\ (PollStep /\ OptionCount >= 1 /\ key'.k = "KEY_UP") =>
             /\ selected_idx' = IF selected_idx = 0 THEN OptionCount - 1
                                ELSE selected_idx - 1
             /\ ~answered' /\ answer' = None
       /\ (PollStep /\ OptionCount >= 1 /\ key'.k = "KEY_DOWN") =>
             /\ selected_idx' = IF selected_idx = OptionCount - 1 THEN 0
                                ELSE selected_idx + 1
             /\ ~answered' /\ answer' = None
       /\ (pc = "sleep" /\ key.k \in {"KEY_UP", "KEY_DOWN"}) => pc' = "check"
      ]_vars

\* up from the first of three options: the last one is highlighted
C15_Witness ==
    /\ pc = "sleep"
    /\ key.k = "KEY_UP"
    /\ OptionCount = 3
    /\ selected_idx = 2
    /\ elapsed = 0
    /\ ~answered

\* C16: every question starts with index 0 highlighted; Enter or Space
\* commits the highlighted index, a letter or digit for an existing option
\* commits that option; the question then ends answered, and the outcome
\* recorded for it holds that answer.
C16_Commit ==
    [][/\ (pc = "next" /\ pc' = "check") => selected_idx' = 0
       /\ (PollStep /\ key'.k \in {"ENTER", "SPACE"}) =>
             (answered' /\ answer' = selected_idx)
       /\ (PollStep /\ key'.k \in {"LETTER", "DIGIT"} /\ key'.n < OptionCount) =>
             (answered' /\ answer' = key'.n)
       /\ (pc = "sleep" /\ answered) => (pc' = "result" /\ answer' = answer)
       /\ (pc = "result" /\ pc' = "next" /\ answered) =>
             /\ Details'[Len(Details')].player_answer = answer
             /\ ~Details'[Len(Details')].timed_out
      ]_vars

\* Enter on the second question commits index 0 although the first question
\* ended on another index
C16_Witness ==
    /\ pc = "sleep"
    /\ i = 2
    /\ key.k = "ENTER"
    /\ answered
    /\ answer = 0
    /\ Details[1].player_answer = 2

\* C17: an empty poll, an unrecognized key, or a letter or digit past the
\* options changes neither the highlighted index nor the answer nor the
\* running score, and the question goes on awaiting input.
C17_NoOpKeys ==
    [][/\ (/\ PollStep
           /\ \/ key'.k \in {"NONE", "OTHER"}
              \/ key'.k \in {"LETTER", "DIGIT"} /\ key'.n >= OptionCount) =>
             /\ selected_idx' = selected_idx
             /\ answer' = None
             /\ ~answered'
             /\ correct_answers' = correct_answers
       /\ (/\ pc = "sleep"
           /\ \/ key.k \in {"NONE", "OTHER"}
              \/ key.k \in {"LETTER", "DIGIT"} /\ key.n >= OptionCount) =>
             pc' = "check"
      ]_vars

\* digit 5 on a question of three options, the second highlighted
C17_Witness ==
    /\ pc = "sleep"
    /\ key = Key("DIGIT", 4)
    /\ OptionCount = 3
    /\ selected_idx = 1
    /\ ~answered
    /\ answer = None

\* C18: on a question with no option or one, navigation leaves index 0
\* highlighted, and the question ends with an outcome recorded, not with an
\* error.
C18_FewOptions ==
    (i \in DOMAIN questions /\ OptionCount <= 1) =>
        /\ pc \in LoopStates => selected_idx = 0
        /\ ~(pc = "crashed" /\ error.where = "result")

\* C19: outcomes are recorded one per question in the order asked: while
\* question i is asked i-1 outcomes are recorded, the k-th for the k-th
\* selected question; at session end there are as many outcomes as selected
\* questions, and score and total_time are set on the player only then.
C19_OneOutcomePerQuestion ==
    /\ \A k \in DOMAIN Details :
          /\ k \in DOMAIN questions
          /\ Details[k].question_id = all_questions[questions[k]].id
    /\ pc \in LoopStates \cup {"next", "result"} =>
          /\ Len(Details) = i - 1
          /\ player.score = 0
          /\ player.total_time = 0
    /\ pc \in {"game_over", "save_score", "save_stats"} =>
          /\ Len(Details) = Len(questions)
          /\ player.score = correct_answers
          /\ player.total_time = total_time

\* game over after two different questions
C19_Witness ==
    /\ pc = "game_over"
    /\ Len(Details) = 2
    /\ Details[1].question_id # Details[2].question_id
    /\ player.total_time > 0

InScores(p) ==
    \E k \in DOMAIN StoredScores :
        /\ StoredScores[k].name = p.name
        /\ StoredScores[k].timestamp = p.timestamp

\* C20: the high-score decision is taken on the scoreboard without the
\* session's own entry, the scoreboard append follows it and comes before
\* the stats append.
C20_EndOrder ==
    [][/\ (pc = "game_over" /\ pc' = "save_score") =>
             /\ ~InScores(player)
             /\ scoreboard_file' = scoreboard_file
             /\ is_high_score' <=>
                   \/ StoredScores = <<>>
                   \/ player.score > BestScore(StoredScores)
                   \/ /\ player.score = BestScore(StoredScores)
                      /\ player.total_time < BestTime(StoredScores)
       /\ scoreboard_file' # scoreboard_file =>
             /\ pc = "save_score"
             /\ ~InScores(player)
             /\ InScores(player)'
             /\ ~InStats(player)
             /\ stats_file' = stats_file
       /\ stats_file' # stats_file =>
             /\ pc = "save_stats"
             /\ InScores(player)
             /\ InStats(player)'
      ]_vars

\* a session stored in both stores after a high score on a scoreboard that
\* held entries
C20_Witness ==
    /\ pc = "menu"
    /\ is_high_score
    /\ Len(StoredScores) >= 3
    /\ InScores(player)
    /\ InStats(player)

====
